---- MODULE Spec2Model ----
(***************************************************************************)
(* Model of isim/device.py: the name/runtime device resolver (from_name,  *)
(* from_identifier over list_all), the watch/phone pairing classifier     *)
(* (Device.pair) and the runtime cache of a Device (runtime, upgrade).    *)
(*                                                                         *)
(* Python strings that are tested with `in` (runtime identifiers) are     *)
(* sequences of one-character strings, so that substring containment and  *)
(* equality are different relations.  Strings that are only compared for  *)
(* equality (device names, exception messages) are TLA+ strings.          *)
(***************************************************************************)
EXTENDS Integers, Sequences, FiniteSets, TLC

VARIABLES
    inventory,   \* what `simctl list devices` reports: runtime key -> device infos
    devices,     \* live Device objects, by object identity
    last         \* the last call made, its arguments and its outcome

vars == <<inventory, devices, last>>

----------------------------------------------------------------------------
(* Bounds *)

MaxDevices == 3      \* udids that may exist in the inventory
NumObjects == 2      \* live Device objects in the device specification

----------------------------------------------------------------------------
(* Values *)

None == [type |-> "NoneType"]

\* The two literals of Device.pair.
MarkerIOS == <<"i", "O", "S">>
MarkerWatchOS == <<"w", "a", "t", "c", "h", "O", "S">>

\* Runtime identifiers used as inventory keys and Device.runtime_name:
\* phone family, watch family, neither family, and one carrying both markers.
RtIOS == <<"i", "O", "S">>
RtWatchOS == <<"w", "a", "t", "c", "h", "O", "S">>
RtTvOS == <<"t", "v", "O", "S">>
RtDual == <<"i", "O", "S", "w", "a", "t", "c", "h", "O", "S">>

\* A runtime identifier that is no key of the inventory, though it is a
\* substring of every key.
RtAbsent == <<"O", "S">>

RuntimeOrder == <<RtIOS, RtWatchOS, RtTvOS, RtDual>>
RuntimeNames == {RuntimeOrder[i] : i \in 1..Len(RuntimeOrder)}

\* isim.runtime.Runtime objects, as far as device.py reads them: .name
RuntimeObjects == {[name |-> n] : n \in RuntimeNames}
RuntimeArgs == {None} \cup RuntimeObjects \cup {[name |-> RtAbsent]}

Names == {"X", "Y"}
Udids == 1..MaxDevices
IdentifierArgs == 1..(MaxDevices + 1)
ObjIds == 1..NumObjects

\* Python: needle in hay
Contains(needle, hay) ==
    \E i \in 0..(Len(hay) - Len(needle)) :
        SubSeq(hay, i + 1, i + Len(needle)) = needle

Return(v) == [outcome |-> "return", value |-> v]
Raise(cls, msg) == [outcome |-> "raise", exception |-> cls, message |-> msg]

----------------------------------------------------------------------------
(* Inventory: list_all_raw / from_simctl_info / list_all *)

Absent == << >>
Placements == {Absent} \cup (Names \X RuntimeNames)

\* The device infos simctl lists under runtime key rn, when udid u is placed
\* at place[u] (a <<name, runtime>> pair, or Absent).
DeviceInfosIn(place, rn) ==
    LET us == SelectSeq([u \in 1..MaxDevices |-> u],
                        LAMBDA u : place[u] # Absent /\ place[u][2] = rn)
    IN  [i \in 1..Len(us) |-> [name |-> place[us[i]][1], udid |-> us[i]]]

list_all_raw(place) ==
    [i \in 1..Len(RuntimeOrder) |->
        [runtime_name |-> RuntimeOrder[i],
         devices |-> DeviceInfosIn(place, RuntimeOrder[i])]]

Device(device_info, runtime_name) ==
    [name |-> device_info.name,
     udid |-> device_info.udid,
     runtime_name |-> runtime_name,
     _runtime |-> None]

from_simctl_info(info) ==
    [i \in 1..Len(info) |->
        [runtime_name |-> info[i].runtime_name,
         devices |-> [j \in 1..Len(info[i].devices) |->
                         Device(info[i].devices[j], info[i].runtime_name)]]]

list_all == from_simctl_info(inventory)

----------------------------------------------------------------------------
(* Device resolver: from_identifier, from_name *)

\* All devices of a list_all() result in iteration order (runtime-major).
RECURSIVE all_device_items(_)
all_device_items(all_devices) ==
    IF all_devices = << >> THEN << >>
    ELSE LET runtime_name == Head(all_devices).runtime_name
             runtime_devices == Head(all_devices).devices
         IN  [i \in 1..Len(runtime_devices) |-> <<runtime_devices[i], runtime_name>>]
             \o all_device_items(Tail(all_devices))

\* Variant of from_identifier falling off the loops without raising.
from_identifier_or_none(all_devices, identifier) ==
    LET found == SelectSeq(all_device_items(all_devices),
                           LAMBDA item : item[1].udid = identifier)
    IN  IF found # << >> THEN Return(found[1][1]) ELSE Return(None)

from_identifier(all_devices, identifier) ==
    LET found == SelectSeq(all_device_items(all_devices),
                           LAMBDA item : item[1].udid = identifier)
    IN  IF found # << >>
        THEN Return(found[1][1])
        ELSE Raise("DeviceNotFoundError", <<"No device with ID: ", identifier>>)

\* from_name, lines 189-195: the (device, runtime_name) pairs matching the name.
matching_name_devices(all_devices, name) ==
    SelectSeq(all_device_items(all_devices), LAMBDA item : item[1].name = name)

\* Variant of matching_devices comparing the runtime by containment.
matching_devices_substring(matching, runtime) ==
    SelectSeq(matching, LAMBDA device : Contains(runtime.name, device[2]))

\* from_name, line 210: the secondary filter by runtime name.
matching_devices(matching, runtime) ==
    SelectSeq(matching, LAMBDA device : device[2] = runtime.name)

\* Variant of from_name applying the runtime filter whenever one is supplied.
from_name_filter_first(all_devices, name, runtime) ==
    LET by_name == matching_name_devices(all_devices, name)
        matching == IF runtime = None THEN by_name
                    ELSE matching_devices(by_name, runtime)
    IN  IF matching = << >> THEN Return(None)
        ELSE IF Len(matching) = 1 THEN Return(matching[1][1])
        ELSE IF runtime = None
        THEN Raise("MultipleMatchesException",
                   "Multiple device matches, but no runtime supplied")
        ELSE Raise("MultipleMatchesException",
                   "Multiple device matches even with runtime supplied")

\* Variant of from_name treating absence like from_identifier does.
from_name_raise_missing(all_devices, name, runtime) ==
    LET by_name == matching_name_devices(all_devices, name)
    IN  IF by_name = << >>
        THEN Raise("DeviceNotFoundError", <<"No device with name: ", name>>)
        ELSE IF Len(by_name) = 1 THEN Return(by_name[1][1])
        ELSE IF runtime = None
        THEN Raise("MultipleMatchesException",
                   "Multiple device matches, but no runtime supplied")
        ELSE LET matching == matching_devices(by_name, runtime)
             IN  IF matching = << >> THEN Return(None)
                 ELSE IF Len(matching) > 1
                 THEN Raise("MultipleMatchesException",
                            "Multiple device matches even with runtime supplied")
                 ELSE Return(matching[1][1])

\* Variant of from_name without the second length check.
from_name_first_match(all_devices, name, runtime) ==
    LET by_name == matching_name_devices(all_devices, name)
    IN  IF by_name = << >> THEN Return(None)
        ELSE IF Len(by_name) = 1 THEN Return(by_name[1][1])
        ELSE IF runtime = None
        THEN Raise("MultipleMatchesException",
                   "Multiple device matches, but no runtime supplied")
        ELSE LET matching == matching_devices(by_name, runtime)
             IN  IF matching = << >> THEN Return(None)
                 ELSE Return(matching[1][1])

from_name(all_devices, name, runtime) ==
    LET by_name == matching_name_devices(all_devices, name)
    IN  IF by_name = << >> THEN Return(None)
        ELSE IF Len(by_name) = 1 THEN Return(by_name[1][1])
        ELSE IF runtime = None
        THEN Raise("MultipleMatchesException",
                   "Multiple device matches, but no runtime supplied")
        ELSE LET matching == matching_devices(by_name, runtime)
             IN  IF matching = << >> THEN Return(None)
                 ELSE IF Len(matching) > 1
                 THEN Raise("MultipleMatchesException",
                            "Multiple device matches even with runtime supplied")
                 ELSE Return(matching[1][1])

----------------------------------------------------------------------------
(* Resolver specification: the inventory is whatever simctl reports; each  *)
(* step is one call of from_name or from_identifier on it.                 *)

NoCall == [op |-> "none"]

InitResolve ==
    /\ \E place \in [Udids -> Placements] : inventory = list_all_raw(place)
    /\ devices = << >>
    /\ last = NoCall

FromName ==
    \E name \in Names, runtime \in RuntimeArgs :
        /\ last' = [op |-> "from_name", name |-> name, runtime |-> runtime,
                    result |-> from_name(list_all, name, runtime)]
        /\ UNCHANGED <<inventory, devices>>

FromIdentifier ==
    \E identifier \in IdentifierArgs :
        /\ last' = [op |-> "from_identifier", identifier |-> identifier,
                    result |-> from_identifier(list_all, identifier)]
        /\ UNCHANGED <<inventory, devices>>

NextResolve == FromName \/ FromIdentifier

SpecResolve == InitResolve /\ [][NextResolve]_vars

----------------------------------------------------------------------------
(* Properties of the resolver *)

\* The Device objects list_all() builds, as a set.
AllDevices ==
    UNION {{list_all[i].devices[j] : j \in 1..Len(list_all[i].devices)} :
              i \in 1..Len(list_all)}

Named(name) == {d \in AllDevices : d.name = name}
InRuntime(ds, rn) == {d \in ds : d.runtime_name = rn}
OnePerRuntime(ds) == \A rn \in RuntimeNames : Cardinality(InRuntime(ds, rn)) <= 1

NoRuntimeMessage == "Multiple device matches, but no runtime supplied"
EvenWithRuntimeMessage == "Multiple device matches even with runtime supplied"

\* C1: when more than one device is named X, at most one per runtime,
\* from_name(X) without a runtime raises MultipleMatchesException,
\* from_name(X, R) returns the one X of runtime R.name, and returns None when
\* no X has a runtime name equal (as a string) to R.name.
C1_SpreadOverRuntimes ==
    (last.op = "from_name"
        /\ Cardinality(Named(last.name)) > 1
        /\ OnePerRuntime(Named(last.name)))
    => LET xs == Named(last.name) IN
       /\ last.runtime = None =>
            /\ last.result.outcome = "raise"
            /\ last.result.exception = "MultipleMatchesException"
       /\ last.runtime # None =>
            /\ \A d \in InRuntime(xs, last.runtime.name) : last.result = Return(d)
            /\ InRuntime(xs, last.runtime.name) = {} => last.result = Return(None)

\* C1 happens: X sits in two runtimes whose names both contain the filter's
\* name as a substring, none equals it, and the call returned None.
C1_Witness ==
    /\ last.op = "from_name"
    /\ Cardinality(Named(last.name)) > 1
    /\ OnePerRuntime(Named(last.name))
    /\ last.runtime # None
    /\ \E d \in Named(last.name) :
          /\ Contains(last.runtime.name, d.runtime_name)
          /\ d.runtime_name # last.runtime.name
    /\ last.result = Return(None)

\* C2: when exactly one device is named X, from_name(X, runtime) returns it
\* whatever the runtime argument is.
C2_SingleMatchIgnoresRuntime ==
    (last.op = "from_name" /\ Cardinality(Named(last.name)) = 1)
    => \A d \in Named(last.name) : last.result = Return(d)

\* C2 happens: the single X was returned though the runtime supplied is not
\* the device's runtime.
C2_Witness ==
    /\ last.op = "from_name"
    /\ Cardinality(Named(last.name)) = 1
    /\ last.runtime # None
    /\ \E d \in Named(last.name) :
          d.runtime_name # last.runtime.name /\ last.result = Return(d)

\* C3: when no device is named X, from_name(X, runtime) returns None and
\* does not raise, whatever the runtime argument is.
C3_NoMatchReturnsNone ==
    (last.op = "from_name" /\ Named(last.name) = {})
    => last.result = Return(None)

\* C3 happens: a non-empty inventory without any X, a runtime supplied, and
\* the call returned None.
C3_Witness ==
    /\ last.op = "from_name"
    /\ Named(last.name) = {}
    /\ AllDevices # {}
    /\ last.runtime # None
    /\ last.result = Return(None)

\* The case of C4: the last call was from_name(X, R1) and two or more devices
\* named X sit in runtime R1.
C4_Case ==
    /\ last.op = "from_name"
    /\ last.runtime # None
    /\ Cardinality(InRuntime(Named(last.name), last.runtime.name)) >= 2

\* C4 as stated: in that case from_name raises, with an error kind that
\* differs from the kind raised for the same name when no runtime is supplied.
C4_Original ==
    C4_Case =>
        /\ last.result.outcome = "raise"
        /\ last.result.exception # from_name(list_all, last.name, None).exception

\* C4 as amended: in that case from_name raises MultipleMatchesException, the
\* same error kind as without a runtime; only the message differs
\* ("even with runtime supplied" against "but no runtime supplied").
C4_Amended ==
    C4_Case =>
        /\ last.result = Raise("MultipleMatchesException", EvenWithRuntimeMessage)
        /\ from_name(list_all, last.name, None)
               = Raise("MultipleMatchesException", NoRuntimeMessage)

\* C4 happens: three devices named X, two of them in the runtime supplied.
C4_Witness ==
    /\ C4_Case
    /\ Cardinality(Named(last.name)) = 3
    /\ Cardinality(InRuntime(Named(last.name), last.runtime.name)) = 2
    /\ last.result.outcome = "raise"

\* C5: from_identifier(id) raises DeviceNotFoundError when no device has that
\* udid, and otherwise returns a device of the inventory with that udid; it
\* never returns None.
C5_IdentifierLookup ==
    last.op = "from_identifier" =>
        LET hits == {d \in AllDevices : d.udid = last.identifier} IN
        /\ last.result # Return(None)
        /\ hits = {} =>
              /\ last.result.outcome = "raise"
              /\ last.result.exception = "DeviceNotFoundError"
        /\ hits # {} =>
              /\ last.result.outcome = "return"
              /\ last.result.value \in hits

\* C5 happens: the device found shares its name with a device of another
\* runtime.
C5_Witness ==
    /\ last.op = "from_identifier"
    /\ last.result.outcome = "return"
    /\ \E d \in AllDevices :
          /\ d.name = last.result.value.name
          /\ d.udid # last.result.value.udid
          /\ d.runtime_name # last.result.value.runtime_name

----------------------------------------------------------------------------
(* Device objects: runtime, upgrade, pair.  Each operator gives the object *)
(* after the call (self), the call's outcome (result) and, for pair, the   *)
(* call handed to isim.pair_devices (simctl).  tool_ok is whether the      *)
(* external isim call made by the method succeeds.                         *)

ToolFailure == Raise("Exception", "external tool call failed")
InvalidDevice ==
    Raise("InvalidDeviceError", "One device should be a watch and the other a phone")

runtime(self, tool_ok) ==
    IF self._runtime = None
    THEN IF tool_ok
         THEN [self |-> [self EXCEPT !._runtime = [name |-> self.runtime_name]],
               result |-> Return([name |-> self.runtime_name])]
         ELSE [self |-> self, result |-> ToolFailure]
    ELSE [self |-> self, result |-> Return(self._runtime)]

\* Variant of upgrade that leaves the cached runtime in place.
upgrade_keep_cache(self, new_runtime, tool_ok) ==
    IF tool_ok
    THEN [self |-> [self EXCEPT !.runtime_name = new_runtime.name],
          result |-> Return(None)]
    ELSE [self |-> self, result |-> ToolFailure]

upgrade(self, new_runtime, tool_ok) ==
    IF tool_ok
    THEN [self |-> [self EXCEPT !._runtime = None,
                                !.runtime_name = new_runtime.name],
          result |-> Return(None)]
    ELSE [self |-> self, result |-> ToolFailure]

PairCall(watch, phone, tool_ok) ==
    [result |-> IF tool_ok THEN Return("pair-identifier") ELSE ToolFailure,
     simctl |-> [cmd |-> "pair", watch |-> watch, phone |-> phone]]

\* Variant of pair handing the two roles to pair_devices in the other order.
pair_swapped(self, other_device, tool_ok) ==
    LET phone1 == IF Contains(MarkerIOS, self.runtime_name) THEN self ELSE None
        phone == IF Contains(MarkerIOS, other_device.runtime_name)
                 THEN other_device ELSE phone1
        watch1 == IF Contains(MarkerWatchOS, self.runtime_name) THEN self ELSE None
        watch == IF Contains(MarkerWatchOS, other_device.runtime_name)
                 THEN other_device ELSE watch1
    IN  IF watch = None \/ phone = None
        THEN [result |-> InvalidDevice, simctl |-> None]
        ELSE PairCall(phone, watch, tool_ok)

\* Variant of pair whose guard needs both roles to be missing.
pair_guard_and(self, other_device, tool_ok) ==
    LET phone1 == IF Contains(MarkerIOS, self.runtime_name) THEN self ELSE None
        phone == IF Contains(MarkerIOS, other_device.runtime_name)
                 THEN other_device ELSE phone1
        watch1 == IF Contains(MarkerWatchOS, self.runtime_name) THEN self ELSE None
        watch == IF Contains(MarkerWatchOS, other_device.runtime_name)
                 THEN other_device ELSE watch1
    IN  IF watch = None /\ phone = None
        THEN [result |-> InvalidDevice, simctl |-> None]
        ELSE PairCall(watch, phone, tool_ok)

\* Variant of pair testing the watch marker only on a device that does not
\* carry the phone marker (elif).
pair_elif(self, other_device, tool_ok) ==
    LET phone1 == IF Contains(MarkerIOS, self.runtime_name) THEN self ELSE None
        phone == IF Contains(MarkerIOS, other_device.runtime_name)
                 THEN other_device ELSE phone1
        watch1 == IF /\ ~Contains(MarkerIOS, self.runtime_name)
                     /\ Contains(MarkerWatchOS, self.runtime_name)
                  THEN self ELSE None
        watch == IF /\ ~Contains(MarkerIOS, other_device.runtime_name)
                    /\ Contains(MarkerWatchOS, other_device.runtime_name)
                 THEN other_device ELSE watch1
    IN  IF watch = None \/ phone = None
        THEN [result |-> InvalidDevice, simctl |-> None]
        ELSE PairCall(watch, phone, tool_ok)

pair(self, other_device, tool_ok) ==
    LET phone1 == IF Contains(MarkerIOS, self.runtime_name) THEN self ELSE None
        phone == IF Contains(MarkerIOS, other_device.runtime_name)
                 THEN other_device ELSE phone1
        watch1 == IF Contains(MarkerWatchOS, self.runtime_name) THEN self ELSE None
        watch == IF Contains(MarkerWatchOS, other_device.runtime_name)
                 THEN other_device ELSE watch1
    IN  IF watch = None \/ phone = None
        THEN [result |-> InvalidDevice, simctl |-> None]
        ELSE PairCall(watch, phone, tool_ok)

----------------------------------------------------------------------------
(* Device specification: NumObjects Device objects, as from_simctl_info    *)
(* constructs them; each step is one method call on one of them.           *)

InitDevice ==
    /\ inventory = << >>
    /\ \E rn \in [ObjIds -> RuntimeNames] :
          devices = [d \in ObjIds |-> Device([name |-> "X", udid |-> d], rn[d])]
    /\ last = NoCall

RuntimeCall ==
    \E d \in ObjIds, tool_ok \in BOOLEAN :
        LET r == runtime(devices[d], tool_ok) IN
        /\ devices' = [devices EXCEPT ![d] = r.self]
        /\ last' = [op |-> "runtime", self |-> d, result |-> r.result]
        /\ UNCHANGED inventory

Upgrade ==
    \E d \in ObjIds, new_runtime \in RuntimeObjects, tool_ok \in BOOLEAN :
        LET r == upgrade(devices[d], new_runtime, tool_ok) IN
        /\ devices' = [devices EXCEPT ![d] = r.self]
        /\ last' = [op |-> "upgrade", self |-> d, runtime |-> new_runtime,
                    result |-> r.result]
        /\ UNCHANGED inventory

Pair ==
    \E d \in ObjIds, other \in ObjIds, tool_ok \in BOOLEAN :
        LET r == pair(devices[d], devices[other], tool_ok) IN
        /\ last' = [op |-> "pair", self |-> d, other_device |-> other,
                    result |-> r.result, simctl |-> r.simctl]
        /\ UNCHANGED <<inventory, devices>>

NextDevice == RuntimeCall \/ Upgrade \/ Pair

SpecDevice == InitDevice /\ [][NextDevice]_vars

----------------------------------------------------------------------------
(* Properties of Device.pair *)

HasIOS(d) == Contains(MarkerIOS, devices[d].runtime_name)
HasWatchOS(d) == Contains(MarkerWatchOS, devices[d].runtime_name)
PhoneOnly(d) == HasIOS(d) /\ ~HasWatchOS(d)
WatchOnly(d) == HasWatchOS(d) /\ ~HasIOS(d)
Dual(d) == HasIOS(d) /\ HasWatchOS(d)
Unmarked(d) == ~HasIOS(d) /\ ~HasWatchOS(d)

\* C6: when one of the two devices carries only the "iOS" marker and the
\* other only the "watchOS" marker, the pairing call receives the watchOS
\* device as watch and the iOS device as phone, and calling pair on the two
\* devices in the other order makes the same pairing call.
C6_PhoneAndWatch ==
    last.op = "pair" =>
        \A p, w \in ObjIds :
            ({p, w} = {last.self, last.other_device} /\ PhoneOnly(p) /\ WatchOnly(w))
            => /\ last.simctl = [cmd |-> "pair", watch |-> devices[w],
                                 phone |-> devices[p]]
               /\ \A ok \in BOOLEAN :
                     pair(devices[p], devices[w], ok).simctl
                         = pair(devices[w], devices[p], ok).simctl

\* C6 happens: the watch called pair on the phone and the tool succeeded.
C6_Witness ==
    /\ last.op = "pair"
    /\ WatchOnly(last.self)
    /\ PhoneOnly(last.other_device)
    /\ last.result.outcome = "return"
    /\ last.simctl.phone = devices[last.other_device]

\* C7: when neither device carries "iOS", or neither carries "watchOS", pair
\* raises InvalidDeviceError and makes no pairing call.
C7_InvalidPairRaises ==
    (last.op = "pair"
        /\ \/ ~HasIOS(last.self) /\ ~HasIOS(last.other_device)
           \/ ~HasWatchOS(last.self) /\ ~HasWatchOS(last.other_device))
    => /\ last.result.outcome = "raise"
       /\ last.result.exception = "InvalidDeviceError"
       /\ last.simctl = None

\* C7 happens: a device without any marker was paired with a watchOS-only
\* device, and the call raised.
C7_Witness ==
    /\ last.op = "pair"
    /\ Unmarked(last.self)
    /\ WatchOnly(last.other_device)
    /\ last.result.outcome = "raise"

\* C8: when a device carrying both markers is paired with a device carrying
\* only "iOS", in either order, the dual-marker device is the watch of the
\* pairing call.
C8_DualBecomesWatch ==
    last.op = "pair" =>
        \A dual, pure \in ObjIds :
            ({dual, pure} = {last.self, last.other_device}
                /\ Dual(dual) /\ PhoneOnly(pure))
            => /\ last.simctl # None
               /\ last.simctl.watch = devices[dual]

\* C8 happens: the iOS-only device called pair on the dual-marker device.
C8_Witness ==
    /\ last.op = "pair"
    /\ PhoneOnly(last.self)
    /\ Dual(last.other_device)
    /\ last.simctl # None
    /\ last.simctl.watch = devices[last.other_device]

\* C9: whenever pair succeeds for two distinct devices, the watch and the
\* phone of the pairing call are different devices, one of them self and the
\* other other_device.
C9_NeverPairedWithItself ==
    (last.op = "pair"
        /\ last.self # last.other_device
        /\ last.result.outcome = "return")
    => /\ last.simctl.watch # last.simctl.phone
       /\ {last.simctl.watch, last.simctl.phone}
              = {devices[last.self], devices[last.other_device]}

----------------------------------------------------------------------------
(* Properties of the runtime cache *)

CacheFresh ==
    \A d \in ObjIds :
        \/ devices[d]._runtime = None
        \/ devices[d]._runtime = [name |-> devices[d].runtime_name]

OneRuntimeName == \A d \in ObjIds : devices[d].runtime_name \in RuntimeNames

UpgradeEffect ==
    last'.op = "upgrade" =>
        /\ last'.result.outcome = "return" =>
              /\ devices'[last'.self].runtime_name = last'.runtime.name
              /\ devices'[last'.self]._runtime = None
        /\ last'.result.outcome = "raise" => devices' = devices
        /\ \A d \in ObjIds \ {last'.self} : devices'[d] = devices[d]

\* C10: over any sequence of runtime() and upgrade(r) calls, a device has one
\* runtime identifier and its cached runtime is empty or the runtime of its
\* current runtime_name; a successful upgrade(r) sets runtime_name to r.name
\* and empties the cache, a failed one changes neither.
C10_RuntimeCache ==
    /\ [](CacheFresh /\ OneRuntimeName)
    /\ [][UpgradeEffect]_vars

\* C10 happens: a successful upgrade just replaced the runtime_name of a
\* device and left its cache empty, while the other device, whose runtime()
\* was called earlier, still holds the cached runtime of its own runtime_name.
C10_Witness ==
    /\ last.op = "upgrade"
    /\ last.result.outcome = "return"
    /\ devices[last.self].runtime_name = last.runtime.name
    /\ devices[last.self]._runtime = None
    /\ \E d \in ObjIds \ {last.self} :
          /\ devices[d]._runtime # None
          /\ devices[d].runtime_name # last.runtime.name

====
